---- MODULE Spec2Model ----
(***************************************************************************)
(* Model of the SecureGenomics breast-cancer allele-frequency protocol:    *)
(* encode.py (VCF -> integer vector), encrypt.py (vector -> ciphertext),    *)
(* circuit.py (ciphertexts -> aggregate), decrypt.py (aggregate -> report). *)
(*                                                                         *)
(* Text is modelled as a sequence of one-character strings, so that        *)
(* replace/split/int act on characters as str.replace, str.split and int() *)
(* do.  A frequency (a Python float) is modelled as an IEEE-754 double,     *)
(* written as float.hex() writes it, and multiplied as the hardware does:  *)
(* the exact product rounded to 53 bits, ties to even.                     *)
(***************************************************************************)
EXTENDS Integers, Sequences, FiniteSets, TLC

VARIABLES
    genotype,            \* _encode_genotype: the argument
    gt_out,              \* _encode_genotype: pending / returned value
    vcf_file,            \* the VCF file: whether the path exists, and its text
    enc_pc,              \* encode_vcf / validate_vcf_format: position of the call
    file_handle,         \* encode_vcf: the lines the for loop has yet to read
    sample_names,        \* encode_vcf: local sample_names
    encoded_data,        \* encode_vcf: local encoded_data (matrix variant x sample)
    enc_out,             \* encode_vcf / validate_vcf_format: pending / returned vector / raised
    public_context,      \* serialized public context handed to the participants
    vectors,             \* plaintext vectors behind the uploaded ciphertexts, in upload order
    encrypted_datasets,  \* ciphertexts received by the aggregator, in arrival order
    last_encrypt,        \* outcome of the latest encrypt_data / batch_encrypt_data call
    circuit_result,      \* outcome of execute_computation_circuit
    decrypted_data,      \* argument of interpret_results (outcome of decrypt_results)
    results              \* outcome of interpret_results

vars == <<genotype, gt_out, vcf_file, enc_pc, file_handle, sample_names, encoded_data,
          enc_out, public_context, vectors, encrypted_datasets, last_encrypt,
          circuit_result, decrypted_data, results>>

gtVars == <<genotype, gt_out>>

encVars == <<vcf_file, enc_pc, file_handle, sample_names, encoded_data, enc_out>>

pipeVars == <<public_context, vectors, encrypted_datasets, last_encrypt, circuit_result>>

repVars == <<decrypted_data, results>>

Pending == [kind |-> "pending"]

Return(v) == [kind |-> "return", value |-> v]

Raise(e) == [kind |-> "raise", error |-> e]

(***************************************************************************)
(* Bounds                                                                  *)
(***************************************************************************)
MaxGenotypeLen == 4

MaxLines == 3          \* lines of an enumerated VCF file

MaxFiller == 102       \* meta lines in front of the header of a long VCF file

MaxParticipants == 3    \* ciphertexts uploaded in one round

MaxCount == 50         \* participant_count handed to interpret_results

----------------------------------------------------------------------------
(***************************************************************************)
(* Text helpers (Python str methods and int())                             *)
(***************************************************************************)
Str(s) == [i \in 1..Len(s) |-> s[i]]

\* A character outside printable ASCII is written as the name of its code point
\* ("U+0661" is ARABIC-INDIC DIGIT ONE); tab, newline, form feed and carriage
\* return are written "\t", "\n", "\f", "\r".
\*
\* DecimalDigits[v + 1]: the characters int() reads as the digit v, i.e. the
\* characters of Unicode category Nd with decimal value v.
DecimalDigits == <<
    {"0", "U+0660", "U+06F0", "U+07C0", "U+0966", "U+09E6", "U+0A66", "U+0AE6",
     "U+0B66", "U+0BE6", "U+0C66", "U+0CE6", "U+0D66", "U+0DE6", "U+0E50", "U+0ED0",
     "U+0F20", "U+1040", "U+1090", "U+17E0", "U+1810", "U+1946", "U+19D0", "U+1A80",
     "U+1A90", "U+1B50", "U+1BB0", "U+1C40", "U+1C50", "U+A620", "U+A8D0", "U+A900",
     "U+A9D0", "U+A9F0", "U+AA50", "U+ABF0", "U+FF10", "U+104A0", "U+10D30", "U+11066",
     "U+110F0", "U+11136", "U+111D0", "U+112F0", "U+11450", "U+114D0", "U+11650",
     "U+116C0", "U+11730", "U+118E0", "U+11950", "U+11C50", "U+11D50", "U+11DA0",
     "U+16A60", "U+16AC0", "U+16B50", "U+1D7CE", "U+1D7D8", "U+1D7E2", "U+1D7EC",
     "U+1D7F6", "U+1E140", "U+1E2F0", "U+1E950", "U+1FBF0"},
    {"1", "U+0661", "U+06F1", "U+07C1", "U+0967", "U+09E7", "U+0A67", "U+0AE7",
     "U+0B67", "U+0BE7", "U+0C67", "U+0CE7", "U+0D67", "U+0DE7", "U+0E51", "U+0ED1",
     "U+0F21", "U+1041", "U+1091", "U+17E1", "U+1811", "U+1947", "U+19D1", "U+1A81",
     "U+1A91", "U+1B51", "U+1BB1", "U+1C41", "U+1C51", "U+A621", "U+A8D1", "U+A901",
     "U+A9D1", "U+A9F1", "U+AA51", "U+ABF1", "U+FF11", "U+104A1", "U+10D31", "U+11067",
     "U+110F1", "U+11137", "U+111D1", "U+112F1", "U+11451", "U+114D1", "U+11651",
     "U+116C1", "U+11731", "U+118E1", "U+11951", "U+11C51", "U+11D51", "U+11DA1",
     "U+16A61", "U+16AC1", "U+16B51", "U+1D7CF", "U+1D7D9", "U+1D7E3", "U+1D7ED",
     "U+1D7F7", "U+1E141", "U+1E2F1", "U+1E951", "U+1FBF1"},
    {"2", "U+0662", "U+06F2", "U+07C2", "U+0968", "U+09E8", "U+0A68", "U+0AE8",
     "U+0B68", "U+0BE8", "U+0C68", "U+0CE8", "U+0D68", "U+0DE8", "U+0E52", "U+0ED2",
     "U+0F22", "U+1042", "U+1092", "U+17E2", "U+1812", "U+1948", "U+19D2", "U+1A82",
     "U+1A92", "U+1B52", "U+1BB2", "U+1C42", "U+1C52", "U+A622", "U+A8D2", "U+A902",
     "U+A9D2", "U+A9F2", "U+AA52", "U+ABF2", "U+FF12", "U+104A2", "U+10D32", "U+11068",
     "U+110F2", "U+11138", "U+111D2", "U+112F2", "U+11452", "U+114D2", "U+11652",
     "U+116C2", "U+11732", "U+118E2", "U+11952", "U+11C52", "U+11D52", "U+11DA2",
     "U+16A62", "U+16AC2", "U+16B52", "U+1D7D0", "U+1D7DA", "U+1D7E4", "U+1D7EE",
     "U+1D7F8", "U+1E142", "U+1E2F2", "U+1E952", "U+1FBF2"},
    {"3", "U+0663", "U+06F3", "U+07C3", "U+0969", "U+09E9", "U+0A69", "U+0AE9",
     "U+0B69", "U+0BE9", "U+0C69", "U+0CE9", "U+0D69", "U+0DE9", "U+0E53", "U+0ED3",
     "U+0F23", "U+1043", "U+1093", "U+17E3", "U+1813", "U+1949", "U+19D3", "U+1A83",
     "U+1A93", "U+1B53", "U+1BB3", "U+1C43", "U+1C53", "U+A623", "U+A8D3", "U+A903",
     "U+A9D3", "U+A9F3", "U+AA53", "U+ABF3", "U+FF13", "U+104A3", "U+10D33", "U+11069",
     "U+110F3", "U+11139", "U+111D3", "U+112F3", "U+11453", "U+114D3", "U+11653",
     "U+116C3", "U+11733", "U+118E3", "U+11953", "U+11C53", "U+11D53", "U+11DA3",
     "U+16A63", "U+16AC3", "U+16B53", "U+1D7D1", "U+1D7DB", "U+1D7E5", "U+1D7EF",
     "U+1D7F9", "U+1E143", "U+1E2F3", "U+1E953", "U+1FBF3"},
    {"4", "U+0664", "U+06F4", "U+07C4", "U+096A", "U+09EA", "U+0A6A", "U+0AEA",
     "U+0B6A", "U+0BEA", "U+0C6A", "U+0CEA", "U+0D6A", "U+0DEA", "U+0E54", "U+0ED4",
     "U+0F24", "U+1044", "U+1094", "U+17E4", "U+1814", "U+194A", "U+19D4", "U+1A84",
     "U+1A94", "U+1B54", "U+1BB4", "U+1C44", "U+1C54", "U+A624", "U+A8D4", "U+A904",
     "U+A9D4", "U+A9F4", "U+AA54", "U+ABF4", "U+FF14", "U+104A4", "U+10D34", "U+1106A",
     "U+110F4", "U+1113A", "U+111D4", "U+112F4", "U+11454", "U+114D4", "U+11654",
     "U+116C4", "U+11734", "U+118E4", "U+11954", "U+11C54", "U+11D54", "U+11DA4",
     "U+16A64", "U+16AC4", "U+16B54", "U+1D7D2", "U+1D7DC", "U+1D7E6", "U+1D7F0",
     "U+1D7FA", "U+1E144", "U+1E2F4", "U+1E954", "U+1FBF4"},
    {"5", "U+0665", "U+06F5", "U+07C5", "U+096B", "U+09EB", "U+0A6B", "U+0AEB",
     "U+0B6B", "U+0BEB", "U+0C6B", "U+0CEB", "U+0D6B", "U+0DEB", "U+0E55", "U+0ED5",
     "U+0F25", "U+1045", "U+1095", "U+17E5", "U+1815", "U+194B", "U+19D5", "U+1A85",
     "U+1A95", "U+1B55", "U+1BB5", "U+1C45", "U+1C55", "U+A625", "U+A8D5", "U+A905",
     "U+A9D5", "U+A9F5", "U+AA55", "U+ABF5", "U+FF15", "U+104A5", "U+10D35", "U+1106B",
     "U+110F5", "U+1113B", "U+111D5", "U+112F5", "U+11455", "U+114D5", "U+11655",
     "U+116C5", "U+11735", "U+118E5", "U+11955", "U+11C55", "U+11D55", "U+11DA5",
     "U+16A65", "U+16AC5", "U+16B55", "U+1D7D3", "U+1D7DD", "U+1D7E7", "U+1D7F1",
     "U+1D7FB", "U+1E145", "U+1E2F5", "U+1E955", "U+1FBF5"},
    {"6", "U+0666", "U+06F6", "U+07C6", "U+096C", "U+09EC", "U+0A6C", "U+0AEC",
     "U+0B6C", "U+0BEC", "U+0C6C", "U+0CEC", "U+0D6C", "U+0DEC", "U+0E56", "U+0ED6",
     "U+0F26", "U+1046", "U+1096", "U+17E6", "U+1816", "U+194C", "U+19D6", "U+1A86",
     "U+1A96", "U+1B56", "U+1BB6", "U+1C46", "U+1C56", "U+A626", "U+A8D6", "U+A906",
     "U+A9D6", "U+A9F6", "U+AA56", "U+ABF6", "U+FF16", "U+104A6", "U+10D36", "U+1106C",
     "U+110F6", "U+1113C", "U+111D6", "U+112F6", "U+11456", "U+114D6", "U+11656",
     "U+116C6", "U+11736", "U+118E6", "U+11956", "U+11C56", "U+11D56", "U+11DA6",
     "U+16A66", "U+16AC6", "U+16B56", "U+1D7D4", "U+1D7DE", "U+1D7E8", "U+1D7F2",
     "U+1D7FC", "U+1E146", "U+1E2F6", "U+1E956", "U+1FBF6"},
    {"7", "U+0667", "U+06F7", "U+07C7", "U+096D", "U+09ED", "U+0A6D", "U+0AED",
     "U+0B6D", "U+0BED", "U+0C6D", "U+0CED", "U+0D6D", "U+0DED", "U+0E57", "U+0ED7",
     "U+0F27", "U+1047", "U+1097", "U+17E7", "U+1817", "U+194D", "U+19D7", "U+1A87",
     "U+1A97", "U+1B57", "U+1BB7", "U+1C47", "U+1C57", "U+A627", "U+A8D7", "U+A907",
     "U+A9D7", "U+A9F7", "U+AA57", "U+ABF7", "U+FF17", "U+104A7", "U+10D37", "U+1106D",
     "U+110F7", "U+1113D", "U+111D7", "U+112F7", "U+11457", "U+114D7", "U+11657",
     "U+116C7", "U+11737", "U+118E7", "U+11957", "U+11C57", "U+11D57", "U+11DA7",
     "U+16A67", "U+16AC7", "U+16B57", "U+1D7D5", "U+1D7DF", "U+1D7E9", "U+1D7F3",
     "U+1D7FD", "U+1E147", "U+1E2F7", "U+1E957", "U+1FBF7"},
    {"8", "U+0668", "U+06F8", "U+07C8", "U+096E", "U+09EE", "U+0A6E", "U+0AEE",
     "U+0B6E", "U+0BEE", "U+0C6E", "U+0CEE", "U+0D6E", "U+0DEE", "U+0E58", "U+0ED8",
     "U+0F28", "U+1048", "U+1098", "U+17E8", "U+1818", "U+194E", "U+19D8", "U+1A88",
     "U+1A98", "U+1B58", "U+1BB8", "U+1C48", "U+1C58", "U+A628", "U+A8D8", "U+A908",
     "U+A9D8", "U+A9F8", "U+AA58", "U+ABF8", "U+FF18", "U+104A8", "U+10D38", "U+1106E",
     "U+110F8", "U+1113E", "U+111D8", "U+112F8", "U+11458", "U+114D8", "U+11658",
     "U+116C8", "U+11738", "U+118E8", "U+11958", "U+11C58", "U+11D58", "U+11DA8",
     "U+16A68", "U+16AC8", "U+16B58", "U+1D7D6", "U+1D7E0", "U+1D7EA", "U+1D7F4",
     "U+1D7FE", "U+1E148", "U+1E2F8", "U+1E958", "U+1FBF8"},
    {"9", "U+0669", "U+06F9", "U+07C9", "U+096F", "U+09EF", "U+0A6F", "U+0AEF",
     "U+0B6F", "U+0BEF", "U+0C6F", "U+0CEF", "U+0D6F", "U+0DEF", "U+0E59", "U+0ED9",
     "U+0F29", "U+1049", "U+1099", "U+17E9", "U+1819", "U+194F", "U+19D9", "U+1A89",
     "U+1A99", "U+1B59", "U+1BB9", "U+1C49", "U+1C59", "U+A629", "U+A8D9", "U+A909",
     "U+A9D9", "U+A9F9", "U+AA59", "U+ABF9", "U+FF19", "U+104A9", "U+10D39", "U+1106F",
     "U+110F9", "U+1113F", "U+111D9", "U+112F9", "U+11459", "U+114D9", "U+11659",
     "U+116C9", "U+11739", "U+118E9", "U+11959", "U+11C59", "U+11D59", "U+11DA9",
     "U+16A69", "U+16AC9", "U+16B59", "U+1D7D7", "U+1D7E1", "U+1D7EB", "U+1D7F5",
     "U+1D7FF", "U+1E149", "U+1E2F9", "U+1E959", "U+1FBF9"} >>

Digits == UNION {DecimalDigits[v + 1] : v \in 0..9}

DigitValue(c) == CHOOSE v \in 0..9 : c \in DecimalDigits[v + 1]

\* the white space str.strip() removes (str.isspace)
Whitespace ==
    {"\t", "\n", "U+000B", "\f", "\r", "U+001C", "U+001D", "U+001E", "U+001F", " ",
     "U+0085", "U+00A0", "U+1680", "U+2000", "U+2001", "U+2002", "U+2003", "U+2004",
     "U+2005", "U+2006", "U+2007", "U+2008", "U+2009", "U+200A", "U+2028", "U+2029",
     "U+202F", "U+205F", "U+3000"}

\* the white space int() accepts around a number: the same, less the four
\* ASCII separators FS, GS, RS, US
IntWhitespace == Whitespace \ {"U+001C", "U+001D", "U+001E", "U+001F"}

\* str.replace(old, new) for one-character old and new
replace(s, old, new) == [i \in 1..Len(s) |-> IF s[i] = old THEN new ELSE s[i]]

\* str.split(sep) for a one-character sep: never empty, "" splits to [""]
RECURSIVE split(_, _)
split(s, sep) ==
    IF \A i \in 1..Len(s) : s[i] /= sep
    THEN <<s>>
    ELSE LET k == CHOOSE i \in 1..Len(s) : s[i] = sep /\ \A j \in 1..(i - 1) : s[j] /= sep
         IN  <<SubSeq(s, 1, k - 1)>> \o split(SubSeq(s, k + 1, Len(s)), sep)

\* s with the characters of chars removed at both ends
stripchars(s, chars) ==
    LET kept == {i \in 1..Len(s) : s[i] \notin chars}
    IN  IF kept = {} THEN <<>>
        ELSE SubSeq(s, CHOOSE i \in kept : \A j \in kept : i <= j,
                       CHOOSE i \in kept : \A j \in kept : j <= i)

\* str.strip()
strip(s) == stripchars(s, Whitespace)

\* str.startswith(prefix)
startswith(s, prefix) ==
    Len(s) >= Len(prefix) /\ SubSeq(s, 1, Len(prefix)) = prefix

RECURSIVE DecimalValue(_)
DecimalValue(ds) ==
    IF Len(ds) = 0 THEN 0
    ELSE 10 * DecimalValue(SubSeq(ds, 1, Len(ds) - 1)) + DigitValue(ds[Len(ds)])

\* the text int() reads after white space and sign are taken off
IntBody(a) ==
    LET t == stripchars(a, IntWhitespace)
    IN  IF Len(t) > 0 /\ t[1] \in {"-", "+"} THEN Tail(t) ELSE t

\* sys.get_int_max_str_digits(): the interpreter's default limit on the
\* number of digits int() converts, which the program never changes
MaxStrDigits == 4300

\* int(a) succeeds: white space around, an optional sign, then decimal digits
\* with single underscores allowed between digits, at most MaxStrDigits
\* digits in all (leading zeros counted, underscores not); anything else is
\* a ValueError
IntParses(a) ==
    LET body == IntBody(a)
    IN  /\ Len(body) > 0
        /\ \A i \in 1..Len(body) : body[i] \in Digits \cup {"_"}
        /\ body[1] /= "_"
        /\ body[Len(body)] /= "_"
        /\ \A i \in 1..(Len(body) - 1) : ~(body[i] = "_" /\ body[i + 1] = "_")
        /\ Len(SelectSeq(body, LAMBDA c : c /= "_")) <= MaxStrDigits

\* the value of int(a), for a that parses
int(a) ==
    LET t      == stripchars(a, IntWhitespace)
        digits == SelectSeq(IntBody(a), LAMBDA c : c /= "_")
    IN  IF t[1] = "-" THEN 0 - DecimalValue(digits) ELSE DecimalValue(digits)

RECURSIVE sum(_)
sum(xs) == IF Len(xs) = 0 THEN 0 ELSE Head(xs) + sum(Tail(xs))

----------------------------------------------------------------------------
(***************************************************************************)
(* encode.py: _encode_genotype                                             *)
(***************************************************************************)
\* allele digits, the missing token, both separators, the signs, white space
\* (space and newline), the digit-group underscore, a non-ASCII digit and a
\* separator character that strip() removes and int() rejects
GenotypeChars ==
    {"0", "1", "2", ".", "/", "|", "-", "+", " ", "\n", "_", "U+0661", "U+001C"}

GenotypeInputs == UNION {[1..n -> GenotypeChars] : n \in 0..MaxGenotypeLen}

MissingGenotypes == {Str(<<".", "/", ".">>), Str(<<".">>), Str(<<".", "|", ".">>)}

\* _encode_genotype without the separator normalisation
encode_genotype_unnormalised(gt) ==
    IF gt \in MissingGenotypes THEN 0 - 1
    ELSE LET alleles == split(gt, "/")
             called  == SelectSeq(alleles, LAMBDA a : a /= <<".">>)
         IN  IF \E i \in 1..Len(called) : ~IntParses(called[i])
             THEN 0 - 1
             ELSE sum([i \in 1..Len(called) |-> int(called[i])])

_encode_genotype(gt) ==
    IF gt \in MissingGenotypes THEN 0 - 1
    ELSE LET alleles == split(replace(gt, "|", "/"), "/")
             called  == SelectSeq(alleles, LAMBDA a : a /= <<".">>)
         IN  IF \E i \in 1..Len(called) : ~IntParses(called[i])
             THEN 0 - 1                      \* except ValueError
             ELSE sum([i \in 1..Len(called) |-> int(called[i])])

EncodeGenotype ==
    /\ gt_out = Pending
    /\ gt_out' = Return(_encode_genotype(genotype))
    /\ UNCHANGED genotype

----------------------------------------------------------------------------
(***************************************************************************)
(* encode.py: TARGET_VARIANTS, validate_vcf_format, encode_vcf             *)
(***************************************************************************)
DigitChar(d) ==
    CASE d = 0 -> "0" [] d = 1 -> "1" [] d = 2 -> "2" [] d = 3 -> "3" [] d = 4 -> "4"
      [] d = 5 -> "5" [] d = 6 -> "6" [] d = 7 -> "7" [] d = 8 -> "8" [] d = 9 -> "9"

\* str(n) / f"{n}" of a non-negative int
RECURSIVE str(_)
str(n) == IF n < 10 THEN <<DigitChar(n)>> ELSE str(n \div 10) \o <<DigitChar(n % 10)>>

TARGET_VARIANTS ==
    << [chr |-> <<"1", "7">>, pos |-> 43044295, ref |-> <<"G">>, alt |-> <<"A">>,
        gene |-> "BRCA1", variant_id |-> "rs80357382"],
       [chr |-> <<"1", "3">>, pos |-> 32315086, ref |-> <<"T">>, alt |-> <<"C">>,
        gene |-> "BRCA2", variant_id |-> "rs80359550"] >>

NumVariants == Len(TARGET_VARIANTS)

LookaheadLimit == 100

HeaderPrefix == <<"#", "C", "H", "R", "O", "M">>

MetaPrefix == <<"#", "#">>

\* The lines a text-mode file object yields: the text cut after each line
\* break, every line break ("\n", "\r\n" or "\r") read as "\n"
readlines(text) ==
    LET IsBreakEnd(i) ==      \* text[i] is the last character of a line break
            \/ text[i] = "\n"
            \/ text[i] = "\r" /\ ~(i < Len(text) /\ text[i + 1] = "\n")
        ends == SelectSeq([i \in 1..Len(text) |-> i], IsBreakEnd)
        BreakStart(e) == IF text[e] = "\n" /\ e > 1 /\ text[e - 1] = "\r" THEN e - 1 ELSE e
        first(k) == IF k = 1 THEN 1 ELSE ends[k - 1] + 1
        n == IF Len(ends) = 0 THEN (IF Len(text) = 0 THEN 0 ELSE 1)
             ELSE IF ends[Len(ends)] < Len(text) THEN Len(ends) + 1 ELSE Len(ends)
    IN  [k \in 1..n |->
            IF k <= Len(ends)
            THEN SubSeq(text, first(k), BreakStart(ends[k]) - 1) \o <<"\n">>
            ELSE SubSeq(text, first(k), Len(text))]

\* enumerate() counts from 0 and the loop breaks once i > LookaheadLimit;
\* the test is made on the line as read, before any strip()
validate_vcf_format(file) ==
    IF ~file.exists THEN Raise("FileNotFoundError")
    ELSE LET lines   == readlines(file.text)
             scanned == {i \in 1..Len(lines) : ~(i - 1 > LookaheadLimit)}
         IN  IF \E i \in scanned : startswith(lines[i], HeaderPrefix)
             THEN Return("None")
             ELSE Raise("ValueError")

\* f"{fields[0]}:{fields[1]}:{fields[3]}:{fields[4]}"
variant_key(fields) ==
    fields[1] \o <<":">> \o fields[2] \o <<":">> \o fields[4] \o <<":">> \o fields[5]

\* f"{v['chr']}:{v['pos']}:{v['ref']}:{v['alt']}"
catalog_key(v) == v.chr \o <<":">> \o str(v.pos) \o <<":">> \o v.ref \o <<":">> \o v.alt

\* variant lookup that compares chromosome and position only
variant_index_by_position(fields) ==
    LET hits == {i \in 1..NumVariants :
                    /\ fields[1] = TARGET_VARIANTS[i].chr
                    /\ fields[2] = str(TARGET_VARIANTS[i].pos)}
    IN  IF hits = {} THEN 0 ELSE CHOOSE i \in hits : \A k \in hits : k <= i

\* variant_positions.get(variant_key): 1-based index of the catalog entry, 0 when absent
variant_index(fields) ==
    LET hits == {i \in 1..NumVariants : catalog_key(TARGET_VARIANTS[i]) = variant_key(fields)}
    IN  IF hits = {} THEN 0 ELSE CHOOSE i \in hits : \A k \in hits : k <= i

\* genotype_data.split(':')[0]
gt_field(genotype_data) == split(genotype_data, ":")[1]

\* One iteration of the for loop of encode_vcf over a line as read
encode_line(names, data, raw) ==
    LET line   == strip(raw)
        fields == split(line, "\t")
    IN  IF startswith(line, MetaPrefix)
        THEN [sample_names |-> names, encoded_data |-> data]
        ELSE IF startswith(line, HeaderPrefix)
        THEN LET hdr == SubSeq(fields, 10, Len(fields))
             IN  [sample_names |-> hdr,
                  encoded_data |-> [v \in 1..NumVariants |-> [j \in 1..Len(hdr) |-> 0]]]
        ELSE IF startswith(line, <<"#">>) \/ Len(fields) < 9
        THEN [sample_names |-> names, encoded_data |-> data]
        ELSE IF variant_index(fields) = 0
        THEN [sample_names |-> names, encoded_data |-> data]
        ELSE LET v    == variant_index(fields)
                 cols == SubSeq(fields, 10, Len(fields))
             IN  IF Len(names) = 0 \/ Len(cols) = 0
                 THEN [sample_names |-> names, encoded_data |-> data]
                 ELSE [sample_names |-> names,
                       encoded_data |->
                           [data EXCEPT ![v] =
                               [j \in 1..Len(names) |->
                                   IF j <= Len(cols)
                                   THEN _encode_genotype(gt_field(cols[j]))
                                   ELSE data[v][j]]]]

\* [val for variant_data in encoded_data for val in variant_data]
RECURSIVE flatten(_)
flatten(data) == IF Len(data) = 0 THEN <<>> ELSE Head(data) \o flatten(Tail(data))

(***************************************************************************)
(* VCF inputs: files (not gzipped) given by their text                     *)
(***************************************************************************)
\* sep.join(fields)
RECURSIVE join(_, _)
join(fields, sep) ==
    IF Len(fields) = 0 THEN <<>>
    ELSE IF Len(fields) = 1 THEN fields[1]
    ELSE fields[1] \o <<sep>> \o join(Tail(fields), sep)

\* a line of tab-separated columns, with its line break
Line(fields) == join(fields, "\t") \o <<"\n">>

Dot == <<".">>

MetaLine == Line(<< <<"#", "#", "f">> >>)

CommentLine == Line(<< <<"#", "n">>, <<"x">> >>)

HeaderColumns ==
    << HeaderPrefix, <<"P", "O", "S">>, <<"I", "D">>, <<"R", "E", "F">>, <<"A", "L", "T">>,
       <<"Q", "U", "A", "L">>, <<"F", "I", "L", "T", "E", "R">>, <<"I", "N", "F", "O">>,
       <<"F", "O", "R", "M", "A", "T">> >>

SampleNames == << <<"s", "1">>, <<"s", "2">> >>

HeaderLine(n) == Line(HeaderColumns \o SubSeq(SampleNames, 1, n))

RecordColumns(chr, pos, ref, alt, samples) ==
    <<chr, pos, Dot, ref, alt, Dot, Dot, Dot, <<"G", "T">> >> \o samples

CatalogColumns(i, samples) ==
    RecordColumns(TARGET_VARIANTS[i].chr, str(TARGET_VARIANTS[i].pos),
                  TARGET_VARIANTS[i].ref, TARGET_VARIANTS[i].alt, samples)

CatalogRecord(i, samples) == Line(CatalogColumns(i, samples))

\* sample columns of the enumerated records: GT alone or GT:DP
SampleColumns ==
    { <<>>,
      << <<"0", "/", "1">> >>,
      << <<"1", "|", "1", ":", "3", "5">>, <<".", "/", ".">> >>,
      << <<"2", "/", "2">>, <<"+", "1", "/", " ", "1">>, <<"0", "|", "1">> >> }

HetColumn == << <<"0", "/", "1">> >>

\* a record of catalog entry 1 cut to 8 columns
ShortRecord == Line(SubSeq(CatalogColumns(1, <<>>), 1, 8))

\* chromosome, position and reference of catalog entry 1, another alternate allele
OtherAltRecord ==
    Line(RecordColumns(TARGET_VARIANTS[1].chr, str(TARGET_VARIANTS[1].pos),
                       TARGET_VARIANTS[1].ref, <<"T">>,
                       << <<"1", "/", "1">>, <<"1", "/", "1">> >>))

\* a '#CHROM' line behind a leading space
IndentedHeader == <<" ">> \o HeaderLine(2)

\* records of catalog entry 1 with a TAB in front of, or behind, the columns
LeadingTabRecord == <<"\t">> \o CatalogRecord(1, HetColumn)

TrailingTabRecord == join(CatalogColumns(1, HetColumn), "\t") \o <<"\t", "\n">>

\* a record of catalog entry 2 without a line break
UnterminatedRecord == join(CatalogColumns(2, HetColumn), "\t")

VcfLines ==
    {MetaLine, CommentLine, ShortRecord, OtherAltRecord, CatalogRecord(2, HetColumn),
     IndentedHeader, LeadingTabRecord, TrailingTabRecord, UnterminatedRecord}
        \cup {HeaderLine(n) : n \in 0..Len(SampleNames)}
        \cup {CatalogRecord(1, cols) : cols \in SampleColumns}

\* line repeated k times
Repeat(line, k) == [i \in 1..(k * Len(line)) |-> line[((i - 1) % Len(line)) + 1]]

\* k meta lines, then (or not) the header line and a record
LongFiles ==
    {Repeat(MetaLine, k) \o tail :
        k \in (LookaheadLimit - 2)..MaxFiller,
        tail \in {<<>>, HeaderLine(1) \o CatalogRecord(1, HetColumn)}}

\* validate_vcf_format(path) called on its own
ValidateVcfFormat ==
    /\ enc_pc = "start"
    /\ enc_out' = validate_vcf_format(vcf_file)
    /\ enc_pc' = "validated"
    /\ UNCHANGED <<vcf_file, file_handle, sample_names, encoded_data>>

\* encode_vcf(path, config) up to the for loop: validation, open, the locals
EncodeVcfBegin ==
    /\ enc_pc = "start"
    /\ IF validate_vcf_format(vcf_file).kind = "raise"
       THEN /\ enc_out' = validate_vcf_format(vcf_file)
            /\ enc_pc' = "done"
            /\ file_handle' = <<>>
       ELSE /\ enc_out' = Pending
            /\ enc_pc' = "loop"
            /\ file_handle' = readlines(vcf_file.text)
    /\ sample_names' = <<>>
    /\ encoded_data' = <<>>
    /\ UNCHANGED vcf_file

\* one iteration of `for line in file_handle`
EncodeVcfLine ==
    /\ enc_pc = "loop"
    /\ Len(file_handle) > 0
    /\ LET step == encode_line(sample_names, encoded_data, Head(file_handle))
       IN  /\ sample_names' = step.sample_names
           /\ encoded_data' = step.encoded_data
    /\ file_handle' = Tail(file_handle)
    /\ UNCHANGED <<vcf_file, enc_pc, enc_out>>

\* end of file: close and return the flattened matrix
EncodeVcfReturn ==
    /\ enc_pc = "loop"
    /\ Len(file_handle) = 0
    /\ enc_out' = Return(flatten(encoded_data))
    /\ enc_pc' = "done"
    /\ UNCHANGED <<vcf_file, file_handle, sample_names, encoded_data>>

----------------------------------------------------------------------------
(***************************************************************************)
(* encrypt.py: encrypt_data, batch_encrypt_data, _validate_public_context  *)
(***************************************************************************)
\* pickle.dumps / base64.b64encode: a byte string wrapping the value
pickle_dumps(x) == [bytes |-> x]

\* pickle.loads(base64.b64decode(b))
pickle_loads(b) == b.bytes

RECURSIVE BitAnd(_, _)
BitAnd(a, b) ==
    IF a = 0 \/ b = 0 THEN 0
    ELSE 2 * BitAnd(a \div 2, b \div 2) + (IF a % 2 = 1 /\ b % 2 = 1 THEN 1 ELSE 0)

supported_schemes == {"BFV", "CKKS"}

required_fields == {"scheme", "poly_modulus_degree", "public_key"}

_validate_public_context(context_data) ==
    /\ \A field \in required_fields : field \in DOMAIN context_data
    /\ context_data["scheme"] \in supported_schemes
    /\ LET degree == context_data["poly_modulus_degree"]
       IN  degree > 0 /\ BitAnd(degree, degree - 1) = 0

\* every exception inside the try block is re-raised as Exception
encrypt_data(data, context) ==
    LET context_data == pickle_loads(context)
    IN  IF "scheme" \notin DOMAIN context_data          \* KeyError in the log line
        THEN Raise("Exception")
        ELSE IF ~_validate_public_context(context_data)
        THEN Raise("Exception")
        ELSE Return(pickle_dumps(
                [scheme         |-> context_data["scheme"],
                 encrypted_data |-> [mock_encrypted_values |-> Len(data)],
                 metadata       |-> [data_count          |-> Len(data),
                                     context_id          |-> "mock_context",
                                     poly_modulus_degree |-> context_data["poly_modulus_degree"]]]))

\* the first rejected dataset aborts the batch
batch_encrypt_data(data_list, context) ==
    IF \E i \in 1..Len(data_list) : encrypt_data(data_list[i], context).kind = "raise"
    THEN Raise("Exception")
    ELSE Return([i \in 1..Len(data_list) |-> encrypt_data(data_list[i], context).value])

(***************************************************************************)
(* circuit.py: execute_computation_circuit                                 *)
(***************************************************************************)
protocol_config == [target_variants |-> TARGET_VARIANTS]

\* dict.get(key, default)
get(d, key, default) == IF key \in DOMAIN d THEN d[key] ELSE default

\* a circuit that reads the variant count off the first ciphertext
execute_computation_circuit_first(datasets, config) ==
    LET target_variant_count ==
            IF Len(datasets) = 0 THEN 0
            ELSE pickle_loads(datasets[1]).metadata.data_count
    IN  Return(pickle_dumps(
            [computation_type      |-> "allele_frequency",
             participant_count     |-> Len(datasets),
             variant_count         |-> target_variant_count,
             encrypted_frequencies |-> [mock_encrypted_frequencies_variants |-> target_variant_count]]))

execute_computation_circuit(datasets, config) ==
    LET total_participants   == Len(datasets)
        target_variant_count == Len(get(config, "target_variants", <<>>))
    IN  Return(pickle_dumps(
            [computation_type      |-> "allele_frequency",
             participant_count     |-> total_participants,
             variant_count         |-> target_variant_count,
             encrypted_frequencies |-> [mock_encrypted_frequencies_variants |-> target_variant_count]]))

(***************************************************************************)
(* decrypt.py: decrypt_results, interpret_results                          *)
(***************************************************************************)
\* A non-negative Python float (IEEE-754 binary64), written as float.hex() writes it:
\* 0x<lead>.<13 hex digits>p<exp>, the value (lead + frac / 16^13) * 2^exp.
\* lead is 1 for every value but 0.0 (0x0.0p+0); subnormals do not occur.
Double(lead, frac, exp) == [lead |-> lead, frac |-> frac, exp |-> exp]

HexValue(c) ==
    CASE c = "0" -> 0 [] c = "1" -> 1 [] c = "2" -> 2 [] c = "3" -> 3
      [] c = "4" -> 4 [] c = "5" -> 5 [] c = "6" -> 6 [] c = "7" -> 7
      [] c = "8" -> 8 [] c = "9" -> 9 [] c = "a" -> 10 [] c = "b" -> 11
      [] c = "c" -> 12 [] c = "d" -> 13 [] c = "e" -> 14 [] c = "f" -> 15

\* The 53-bit significand lead.frac as four limbs, least significant first:
\* three of 16 bits and the top one of 5 bits
Hex4(frac, i) ==
    ((HexValue(frac[i]) * 16 + HexValue(frac[i + 1])) * 16
        + HexValue(frac[i + 2])) * 16 + HexValue(frac[i + 3])

Significand(f) ==
    <<Hex4(f.frac, 10), Hex4(f.frac, 6), Hex4(f.frac, 2), f.lead * 16 + HexValue(f.frac[1])>>

LimbBase == 2^16

\* number of bits of v, 0 < v < 2^30
BitLength(v) == CHOOSE b \in 1..30 : v < 2^b /\ (b = 1 \/ 2^(b - 1) <= v)

\* limbs m shifted right by k bits, 0 <= k < 16
ShiftLimbs(m, k) ==
    <<(m[1] \div 2^k) + (m[2] % 2^k) * 2^(16 - k),
      (m[2] \div 2^k) + (m[3] % 2^k) * 2^(16 - k),
      (m[3] \div 2^k) + (m[4] % 2^k) * 2^(16 - k),
      m[4] \div 2^k>>

\* limbs m plus one
Successor(m) ==
    IF m[1] + 1 < LimbBase THEN <<m[1] + 1, m[2], m[3], m[4]>>
    ELSE IF m[2] + 1 < LimbBase THEN <<0, m[2] + 1, m[3], m[4]>>
    ELSE IF m[3] + 1 < LimbBase THEN <<0, 0, m[3] + 1, m[4]>>
    ELSE <<0, 0, 0, m[4] + 1>>

\* float * int for 0 <= n < 2^15: the exact product of the significand and n,
\* rounded to 53 bits, ties to even.  The result is [zero, sig, exp], the
\* value being sig * 2^(exp - 52) with 2^52 <= sig < 2^53.
float_times_int(f, n) ==
    IF f.lead = 0 \/ n = 0 THEN [zero |-> TRUE, sig |-> <<0, 0, 0, 0>>, exp |-> 0]
    ELSE LET m    == Significand(f)
             p1   == m[1] * n
             p2   == m[2] * n + p1 \div LimbBase
             p3   == m[3] * n + p2 \div LimbBase
             p4   == m[4] * n + p3 \div LimbBase
             prod == <<p1 % LimbBase, p2 % LimbBase, p3 % LimbBase, p4>>
             k    == BitLength(p4) - 5              \* bits beyond the 53rd
             q    == ShiftLimbs(prod, k)
             rest == prod[1] % 2^k                  \* the bits shifted out
             up   == k > 0 /\ (2 * rest > 2^k \/ (2 * rest = 2^k /\ q[1] % 2 = 1))
             r    == IF up THEN Successor(q) ELSE q
         IN  IF r[4] = 32                           \* rounded up to 2^53
             THEN [zero |-> FALSE, sig |-> <<0, 0, 0, 16>>, exp |-> f.exp + k + 1]
             ELSE [zero |-> FALSE, sig |-> r, exp |-> f.exp + k]

\* x * 2 is exact
times_two(x) == IF x.zero THEN x ELSE [x EXCEPT !.exp = x.exp + 1]

\* limbs m shifted right by s bits, s >= 22 (the result is below 2^31)
Floor(m, s) ==
    IF s > 52 THEN 0
    ELSE IF s >= 48 THEN m[4] \div 2^(s - 48)
    ELSE IF s >= 32 THEN (m[4] * LimbBase + m[3]) \div 2^(s - 32)
    ELSE m[4] * 2^(48 - s) + m[3] * 2^(32 - s) + m[2] \div 2^(s - 16)

\* int(x) of a float x >= 0 below 2^31: the integer part
float_to_int(x) == IF x.zero THEN 0 ELSE Floor(x.sig, 52 - x.exp)

\* [0.25, 0.15]
mock_frequencies ==
    << Double(1, <<"0", "0", "0", "0", "0", "0", "0", "0", "0", "0", "0", "0", "0">>, 0 - 2),
       Double(1, <<"3", "3", "3", "3", "3", "3", "3", "3", "3", "3", "3", "3", "3">>, 0 - 3) >>

decrypt_results(encrypted_results, private_context) ==
    LET context_data == pickle_loads(private_context)
        result_data  == pickle_loads(encrypted_results)
    IN  Return([computation_type    |-> get(result_data, "computation_type", "None"),
                participant_count   |-> get(result_data, "participant_count", "None"),
                variant_frequencies |-> mock_frequencies])

\* int(frequencies[i] * participant_count * 2)
allele_count(f, participant_count) ==
    float_to_int(times_two(float_times_int(f, participant_count)))

interpret_results(data) ==
    LET frequencies       == get(data, "variant_frequencies", <<>>)
        participant_count == get(data, "participant_count", 0)
        shown             == {i \in 1..NumVariants : i <= Len(frequencies)}
    IN  Return([analysis_type     |-> "Breast Cancer Allele Frequency",
                participant_count |-> participant_count,
                variants          |->
                    [i \in 1..Cardinality(shown) |->
                        [gene             |-> TARGET_VARIANTS[i].gene,
                         variant_id       |-> TARGET_VARIANTS[i].variant_id,
                         position         |-> TARGET_VARIANTS[i].chr \o <<":">> \o str(TARGET_VARIANTS[i].pos),
                         allele_frequency |-> frequencies[i],
                         allele_count     |-> allele_count(frequencies[i], participant_count)]]])

(***************************************************************************)
(* Pipeline inputs                                                         *)
(***************************************************************************)
Context(scheme, degree) ==
    [scheme |-> scheme, poly_modulus_degree |-> degree, public_key |-> "pk"]

ContextData ==
    {Context(s, d) : s \in {"BFV", "CKKS", "RSA"}, d \in {0 - 8, 0, 6, 8, 8192}}
        \cup {[scheme |-> "BFV", poly_modulus_degree |-> 8192, secret_key |-> "sk"],
              [poly_modulus_degree |-> 8192, public_key |-> "pk"]}

private_context == pickle_dumps([scheme |-> "BFV", poly_modulus_degree |-> 8192, secret_key |-> "sk"])

\* encoded vectors of the participants: one sample, two samples, no sample
EncodedVectors == {<<>>, <<1, 0>>, <<2, 1>>, <<0, 0>>, <<1, 0 - 1, 2, 0>>}

\* a participant encrypts its vector and, on success, uploads the ciphertext
EncryptData ==
    /\ circuit_result = Pending
    /\ Len(encrypted_datasets) < MaxParticipants
    /\ \E v \in EncodedVectors :
          LET out == encrypt_data(v, public_context)
          IN  /\ last_encrypt' = [call |-> "encrypt_data", input |-> v, out |-> out]
              /\ IF out.kind = "return"
                 THEN /\ encrypted_datasets' = Append(encrypted_datasets, out.value)
                      /\ vectors' = Append(vectors, v)
                 ELSE UNCHANGED <<encrypted_datasets, vectors>>
    /\ UNCHANGED <<public_context, circuit_result, decrypted_data, results>>

\* a site encrypts two datasets in one batch and uploads what the call returns
BatchEncryptData ==
    /\ circuit_result = Pending
    /\ Len(encrypted_datasets) + 2 <= MaxParticipants
    /\ \E v \in EncodedVectors, w \in EncodedVectors :
          LET out == batch_encrypt_data(<<v, w>>, public_context)
          IN  /\ last_encrypt' = [call |-> "batch_encrypt_data", input |-> <<v, w>>, out |-> out]
              /\ IF out.kind = "return"
                 THEN /\ encrypted_datasets' = encrypted_datasets \o out.value
                      /\ vectors' = vectors \o <<v, w>>
                 ELSE UNCHANGED <<encrypted_datasets, vectors>>
    /\ UNCHANGED <<public_context, circuit_result, decrypted_data, results>>

ExecuteComputationCircuit ==
    /\ circuit_result = Pending
    /\ circuit_result' = execute_computation_circuit(encrypted_datasets, protocol_config)
    /\ UNCHANGED <<public_context, vectors, encrypted_datasets, last_encrypt,
                   decrypted_data, results>>

DecryptResults ==
    /\ circuit_result.kind = "return"
    /\ decrypted_data = Pending
    /\ decrypted_data' = decrypt_results(circuit_result.value, private_context)
    /\ UNCHANGED <<public_context, vectors, encrypted_datasets, last_encrypt,
                   circuit_result, results>>

InterpretResults ==
    /\ decrypted_data.kind = "return"
    /\ results = Pending
    /\ results' = interpret_results(decrypted_data.value)
    /\ UNCHANGED <<public_context, vectors, encrypted_datasets, last_encrypt,
                   circuit_result, decrypted_data>>

\* decrypted data handed to interpret_results directly
\* 0.0, 0.125, 1/6, 0.25, 0.29, 0.375, 0.5, 0.57, 1.0
FrequencyValues ==
    { Double(0, <<"0", "0", "0", "0", "0", "0", "0", "0", "0", "0", "0", "0", "0">>, 0),
      Double(1, <<"0", "0", "0", "0", "0", "0", "0", "0", "0", "0", "0", "0", "0">>, 0 - 3),
      Double(1, <<"5", "5", "5", "5", "5", "5", "5", "5", "5", "5", "5", "5", "5">>, 0 - 3),
      Double(1, <<"0", "0", "0", "0", "0", "0", "0", "0", "0", "0", "0", "0", "0">>, 0 - 2),
      Double(1, <<"2", "8", "f", "5", "c", "2", "8", "f", "5", "c", "2", "8", "f">>, 0 - 2),
      Double(1, <<"8", "0", "0", "0", "0", "0", "0", "0", "0", "0", "0", "0", "0">>, 0 - 2),
      Double(1, <<"0", "0", "0", "0", "0", "0", "0", "0", "0", "0", "0", "0", "0">>, 0 - 1),
      Double(1, <<"2", "3", "d", "7", "0", "a", "3", "d", "7", "0", "a", "3", "d">>, 0 - 1),
      Double(1, <<"0", "0", "0", "0", "0", "0", "0", "0", "0", "0", "0", "0", "0">>, 0) }

FrequencyLists == UNION {[1..n -> FrequencyValues] : n \in 0..(NumVariants + 1)}

DecryptedInputs ==
    {[computation_type |-> "allele_frequency", participant_count |-> pc, variant_frequencies |-> fs] :
        pc \in 0..MaxCount, fs \in FrequencyLists}
        \cup {[computation_type |-> "allele_frequency"]}

(***************************************************************************)
(* Specifications                                                          *)
(***************************************************************************)
NoFile == [exists |-> FALSE, text |-> <<>>]

NoCall == [call |-> "none"]

\* a round about to start under one of the public contexts
Init ==
    /\ public_context \in {pickle_dumps(c) : c \in ContextData}
    /\ vectors = <<>>
    /\ encrypted_datasets = <<>>
    /\ last_encrypt = NoCall
    /\ circuit_result = Pending
    /\ decrypted_data = Pending
    /\ results = Pending
    /\ genotype = <<>>
    /\ gt_out = Pending
    /\ vcf_file = NoFile
    /\ enc_pc = "idle"
    /\ file_handle = <<>>
    /\ sample_names = <<>>
    /\ encoded_data = <<>>
    /\ enc_out = Pending

\* _encode_genotype about to be called on a genotype string
InitGenotype ==
    /\ genotype \in GenotypeInputs
    /\ gt_out = Pending
    /\ vcf_file = NoFile
    /\ enc_pc = "idle"
    /\ file_handle = <<>>
    /\ sample_names = <<>>
    /\ encoded_data = <<>>
    /\ enc_out = Pending
    /\ public_context = pickle_dumps(Context("BFV", 8192))
    /\ vectors = <<>>
    /\ encrypted_datasets = <<>>
    /\ last_encrypt = NoCall
    /\ circuit_result = Pending
    /\ decrypted_data = Pending
    /\ results = Pending

\* validate_vcf_format or encode_vcf about to be called on a VCF file
InitEncode ==
    /\ \/ vcf_file = NoFile
       \/ \E t \in LongFiles : vcf_file = [exists |-> TRUE, text |-> t]
       \/ \E n \in 0..MaxLines : \E ls \in [1..n -> VcfLines] :
              vcf_file = [exists |-> TRUE, text |-> flatten(ls)]
    /\ enc_pc = "start"
    /\ file_handle = <<>>
    /\ sample_names = <<>>
    /\ encoded_data = <<>>
    /\ enc_out = Pending
    /\ genotype = <<>>
    /\ gt_out = Pending
    /\ public_context = pickle_dumps(Context("BFV", 8192))
    /\ vectors = <<>>
    /\ encrypted_datasets = <<>>
    /\ last_encrypt = NoCall
    /\ circuit_result = Pending
    /\ decrypted_data = Pending
    /\ results = Pending

\* interpret_results about to be called on a decrypted record
InitInterpret ==
    /\ decrypted_data \in {Return(d) : d \in DecryptedInputs}
    /\ results = Pending
    /\ genotype = <<>>
    /\ gt_out = Pending
    /\ vcf_file = NoFile
    /\ enc_pc = "idle"
    /\ file_handle = <<>>
    /\ sample_names = <<>>
    /\ encoded_data = <<>>
    /\ enc_out = Pending
    /\ public_context = pickle_dumps(Context("BFV", 8192))
    /\ vectors = <<>>
    /\ encrypted_datasets = <<>>
    /\ last_encrypt = NoCall
    /\ circuit_result = Pending

\* the protocol round: encrypt, aggregate, decrypt, interpret
Next ==
    \/ (EncryptData /\ UNCHANGED <<gtVars, encVars>>)
    \/ (BatchEncryptData /\ UNCHANGED <<gtVars, encVars>>)
    \/ (ExecuteComputationCircuit /\ UNCHANGED <<gtVars, encVars>>)
    \/ (DecryptResults /\ UNCHANGED <<gtVars, encVars>>)
    \/ (InterpretResults /\ UNCHANGED <<gtVars, encVars>>)

Spec == Init /\ [][Next]_vars

\* _encode_genotype on every genotype string
NextGenotype == EncodeGenotype /\ UNCHANGED <<encVars, pipeVars, repVars>>

SpecGenotype == InitGenotype /\ [][NextGenotype]_vars

\* validate_vcf_format and encode_vcf on every VCF file
NextEncode ==
    \/ (ValidateVcfFormat /\ UNCHANGED <<gtVars, pipeVars, repVars>>)
    \/ (EncodeVcfBegin /\ UNCHANGED <<gtVars, pipeVars, repVars>>)
    \/ (EncodeVcfLine /\ UNCHANGED <<gtVars, pipeVars, repVars>>)
    \/ (EncodeVcfReturn /\ UNCHANGED <<gtVars, pipeVars, repVars>>)

SpecEncode == InitEncode /\ [][NextEncode]_vars

\* interpret_results on every decrypted record
NextInterpret == InterpretResults /\ UNCHANGED <<gtVars, encVars>>

SpecInterpret == InitInterpret /\ [][NextInterpret]_vars

----------------------------------------------------------------------------
(***************************************************************************)
(* Properties                                                              *)
(***************************************************************************)
Abs(x) == IF x < 0 THEN 0 - x ELSE x

\* sum of slot i over the uploaded plaintext vectors
ColumnSum(vs, i) == sum([k \in 1..Len(vs) |-> vs[k][i]])

\* the integer part of f * 2^24, for a float 0 <= f <= 1
Scaled(f) == IF f.lead = 0 THEN 0 ELSE Floor(Significand(f), 28 - f.exp)

ReportedCounts == [i \in 1..Len(results.value.variants) |-> results.value.variants[i].allele_count]

\* C1: after encrypt_data on each of N >= 1 vectors of catalog length,
\* execute_computation_circuit and decrypt_results, frequency i equals
\* (v1[i] + ... + vN[i]) / (N * 2) to within 2^-20; for the vectors [1,0], [2,1], [0,0]
\* interpret_results reports the allele counts [3, 1].
HomomorphicSumCorrect ==
    ( /\ decrypted_data.kind = "return"
      /\ Len(vectors) >= 1
      /\ \A k \in 1..Len(vectors) : Len(vectors[k]) = NumVariants )
    => LET fs == decrypted_data.value.variant_frequencies
           N  == Len(vectors)
       IN  /\ Len(fs) = NumVariants
           /\ \A i \in 1..NumVariants :
                 Abs(Scaled(fs[i]) * (N * 2) - ColumnSum(vectors, i) * 2^24) <= 2^4 * (N * 2)
           /\ (results.kind = "return" /\ vectors = << <<1, 0>>, <<2, 1>>, <<0, 0>> >>)
                  => ReportedCounts = <<3, 1>>

\* a token that is a non-empty run of decimal digits
IsAlleleCall(a) == Len(a) > 0 /\ \A i \in 1..Len(a) : a[i] \in Digits

HasNoSeparator(a) == \A i \in 1..Len(a) : a[i] \notin {"/", "|"}

\* C2: _encode_genotype returns the sum of the two allele calls of a fully
\* called genotype, for '/' and for '|' alike: "0/0" -> 0, "0/1" -> 1,
\* "1/1" -> 2, "1|0" -> 1, "./." -> -1, and "a|b" decodes as "a/b" does.
GenotypeDecoding ==
    gt_out.kind = "return" =>
        /\ (genotype = <<"0", "/", "0">> => gt_out.value = 0)
        /\ (genotype = <<"0", "/", "1">> => gt_out.value = 1)
        /\ (genotype = <<"1", "/", "1">> => gt_out.value = 2)
        /\ (genotype = <<"1", "|", "0">> => gt_out.value = 1)
        /\ (genotype = <<".", "/", ".">> => gt_out.value = 0 - 1)
        /\ \A k \in 1..Len(genotype) :
              LET a == SubSeq(genotype, 1, k - 1)
                  b == SubSeq(genotype, k + 1, Len(genotype))
              IN  /\ (genotype[k] \in {"/", "|"} /\ IsAlleleCall(a) /\ IsAlleleCall(b))
                         => gt_out.value = DecimalValue(a) + DecimalValue(b)
                  /\ (genotype[k] = "|" /\ HasNoSeparator(a) /\ HasNoSeparator(b))
                         => gt_out.value = _encode_genotype(a \o <<"/">> \o b)

\* C2 witness: the phased genotype "1|0" was decoded to 1
PhasedGenotypeDecoded == genotype = <<"1", "|", "0">> /\ gt_out = Return(1)

\* the allele tokens of a genotype field, either separator
AlleleTokens(gt) == split(replace(gt, "|", "/"), "/")

\* a token that int() reads as an integer >= 0
IsNonNegativeInt(a) == IntParses(a) /\ int(a) >= 0

\* C3: _encode_genotype never raises; it returns -1 whenever an allele
\* position holds the missing token '.', and whenever an allele token does
\* not parse as a non-negative integer.
MissingTokenYieldsSentinel ==
    gt_out /= Pending =>
        /\ gt_out.kind = "return"
        /\ (\E i \in 1..Len(AlleleTokens(genotype)) : AlleleTokens(genotype)[i] = <<".">>)
               => gt_out.value = 0 - 1
        /\ (\E i \in 1..Len(AlleleTokens(genotype)) :
                ~IsNonNegativeInt(AlleleTokens(genotype)[i]))
               => gt_out.value = 0 - 1

\* C4: every slot of the vector returned by encode_vcf is -1, 0, 1 or 2.
SlotsAreDosages ==
    (enc_pc = "done" /\ enc_out.kind = "return") =>
        \A i \in 1..Len(enc_out.value) : enc_out.value[i] \in {0 - 1, 0, 1, 2}

\* C5: execute_computation_circuit on an empty list of ciphertexts fails,
\* and no result with participant count 0 is produced.
AggregationNeedsInput ==
    circuit_result /= Pending =>
        /\ Len(encrypted_datasets) = 0 => circuit_result.kind = "raise"
        /\ circuit_result.kind = "return"
               => pickle_loads(circuit_result.value).participant_count >= 1

\* a line beginning with '#CHROM' among the first n lines of the file
HeaderWithin(n) ==
    LET lines == readlines(vcf_file.text)
    IN  \E i \in 1..Len(lines) : i <= n /\ startswith(lines[i], HeaderPrefix)

\* C6: validate_vcf_format, and with it encode_vcf, rejects an existing file
\* exactly when none of its first 100 lines begins with '#CHROM'.
HeaderLookaheadIsHundredLines ==
    (vcf_file.exists /\ enc_pc \in {"validated", "loop", "done"}) =>
        (enc_out.kind = "raise" <=> ~HeaderWithin(100))

RECURSIVE IsPowerOfTwo(_)
IsPowerOfTwo(d) == d = 1 \/ (d > 1 /\ d % 2 = 0 /\ IsPowerOfTwo(d \div 2))

\* what the encryption stage is to accept
Encryptable(v, context) ==
    LET c == pickle_loads(context)
    IN  /\ Len(v) > 0
        /\ {"public_key", "scheme", "poly_modulus_degree"} \subseteq DOMAIN c
        /\ c["scheme"] \in {"BFV", "CKKS"}
        /\ IsPowerOfTwo(c["poly_modulus_degree"])

\* C7: encrypt_data returns a ciphertext exactly when the vector is non-empty
\* and the context has a public key, an allow-listed scheme and a positive
\* power-of-two degree, and raises otherwise; batch_encrypt_data returns
\* nothing when one of its datasets is rejected.
EncryptRejectsInvalidInput ==
    /\ last_encrypt.call = "encrypt_data" =>
           (last_encrypt.out.kind = "return" <=> Encryptable(last_encrypt.input, public_context))
    /\ last_encrypt.call = "batch_encrypt_data" =>
           (last_encrypt.out.kind = "return" =>
                \A i \in 1..Len(last_encrypt.input) :
                    Encryptable(last_encrypt.input[i], public_context))

\* C8: for every permutation of the uploaded ciphertexts the circuit returns
\* the aggregate it returned for the arrival order, and that aggregate
\* decrypts to the same result.
AggregationOrderIndependent ==
    circuit_result.kind = "return" =>
        \A p \in Permutations(1..Len(encrypted_datasets)) :
            LET permuted == [i \in 1..Len(encrypted_datasets) |-> encrypted_datasets[p[i]]]
                other    == execute_computation_circuit(permuted, protocol_config)
            IN  /\ other = circuit_result
                /\ decrypt_results(other.value, private_context)
                       = decrypt_results(circuit_result.value, private_context)
                /\ decrypted_data.kind = "return"
                       => decrypt_results(other.value, private_context) = decrypted_data

\* C8 witness: an aggregate over ciphertexts that differ was decrypted
DistinctCiphertextsAggregated ==
    /\ decrypted_data.kind = "return"
    /\ Len(encrypted_datasets) >= 2
    /\ encrypted_datasets[1] /= encrypted_datasets[2]

\* bit j (0 the least significant) of a significand
Bit(m, j) == (m[(j \div 16) + 1] \div 2^(j % 16)) % 2

\* c is an integer nearest to the float x, 0 <= x < 2^30: the integer part
\* of x when the fraction is below 1/2, the next integer when it is above,
\* either of them when it is 1/2
IsNearestInteger(c, x) ==
    IF x.zero \/ 52 - x.exp > 53 THEN c = 0
    ELSE LET s     == 52 - x.exp                   \* number of fraction bits
             whole == Floor(x.sig, s)
             half  == s > 0 /\ Bit(x.sig, s - 1) = 1
             more  == \E j \in 0..(s - 2) : Bit(x.sig, j) = 1
         IN  IF ~half THEN c = whole
             ELSE IF more THEN c = whole + 1
             ELSE c \in {whole, whole + 1}

\* C9: interpret_results reports variant i of the catalog for frequency i,
\* with allele_count the integer nearest to frequency * participant_count * 2.
AlleleCountIsRounded ==
    results.kind = "return" =>
        LET data == decrypted_data.value
            fs   == get(data, "variant_frequencies", <<>>)
            pc   == get(data, "participant_count", 0)
            out  == results.value.variants
        IN  /\ Len(out) = IF Len(fs) < NumVariants THEN Len(fs) ELSE NumVariants
            /\ \A i \in 1..Len(out) :
                  /\ out[i].gene = TARGET_VARIANTS[i].gene
                  /\ out[i].variant_id = TARGET_VARIANTS[i].variant_id
                  /\ out[i].position = TARGET_VARIANTS[i].chr \o <<":">> \o str(TARGET_VARIANTS[i].pos)
                  /\ out[i].allele_frequency = fs[i]
                  /\ IsNearestInteger(out[i].allele_count,
                                      times_two(float_times_int(fs[i], pc)))

\* the tab-separated columns of a line, the white space around the line
\* (its line break included) not counted
Columns(line) == split(strip(line), "\t")

\* a data line of at least 9 columns whose chromosome, position, reference
\* and alternate allele are those of catalog entry i
IsRecordOf(line, i) ==
    /\ ~startswith(strip(line), <<"#">>)
    /\ Len(Columns(line)) >= 9
    /\ Columns(line)[1] = TARGET_VARIANTS[i].chr
    /\ Columns(line)[2] = str(TARGET_VARIANTS[i].pos)
    /\ Columns(line)[4] = TARGET_VARIANTS[i].ref
    /\ Columns(line)[5] = TARGET_VARIANTS[i].alt

IsHeader(line) == startswith(strip(line), HeaderPrefix)

\* number of samples named by the (last) '#CHROM' line of the file
HeaderSamples ==
    LET lines == readlines(vcf_file.text)
        hs    == {k \in 1..Len(lines) : IsHeader(lines[k])}
        h     == CHOOSE k \in hs : \A m \in hs : m <= k
    IN  IF Len(Columns(lines[h])) > 9 THEN Len(Columns(lines[h])) - 9 ELSE 0

EncodeLayout ==
    (enc_pc = "done" /\ enc_out.kind = "return") =>
        LET S     == HeaderSamples
            vec   == enc_out.value
            lines == readlines(vcf_file.text)
        IN  /\ Len(vec) = NumVariants * S
            /\ S = 0 => vec = <<>>
            /\ \A i \in 1..NumVariants : \A j \in 1..S :
                  /\ vec[(i - 1) * S + j] = encoded_data[i][j]
                  /\ (\A k \in 1..Len(lines) : ~IsRecordOf(lines[k], i))
                         => vec[(i - 1) * S + j] = 0

EncodeFrame ==
    (enc_pc = "loop" /\ enc_pc' = "loop") =>
        LET line == Head(file_handle)
        IN  \/ IsHeader(line)
            \/ /\ sample_names' = sample_names
               /\ Len(encoded_data') = Len(encoded_data)
               /\ \A i \in 1..Len(encoded_data) :
                     \/ encoded_data'[i] = encoded_data[i]
                     \/ /\ IsRecordOf(line, i)
                        /\ \A j \in 1..Len(sample_names) :
                              encoded_data'[i][j] =
                                  IF j <= Len(Columns(line)) - 9
                                  THEN _encode_genotype(gt_field(Columns(line)[9 + j]))
                                  ELSE encoded_data[i][j]

\* C10: encode_vcf returns |catalog| x S slots, variant-major, S being the
\* number of samples the '#CHROM' line names (none: the vector is empty);
\* only a record of at least 9 columns that equals catalog entry i in
\* chromosome, position, reference and alternate allele changes a slot of
\* entry i (sample column j going to slot j of the entry), and the slots of
\* an entry without such a record are 0.  The columns of a line are read
\* with the white space around the line left out.
EncodeVcfFrame == []EncodeLayout /\ [][EncodeFrame]_vars

\* C10 witness: two samples, entry 1 written by its record while a record
\* with another alternate allele left entry 1 alone and entry 2 stayed 0
TwoSampleFileEncoded ==
    /\ enc_pc = "done"
    /\ enc_out = Return(<<2, 0 - 1, 0, 0>>)
    /\ LET lines == readlines(vcf_file.text)
       IN  \E k \in 1..Len(lines) : lines[k] = OtherAltRecord

====
